---- MODULE Spec2Model ----
(***************************************************************************)
(* A model of the CRM canister of src/dfinity_js_backend/src/index.ts:     *)
(* three identifier-keyed stores (customers, interactions, purchases), the *)
(* identifier generator and validators, and the service operations.        *)
(* Strings that the code inspects character by character (identifiers)     *)
(* are sequences of one-character strings.                                 *)
(***************************************************************************)
EXTENDS Integers, Sequences, FiniteSets, TLC

VARIABLES customerStorage, interactionStorage, purchaseStorage, issued, call

vars == <<customerStorage, interactionStorage, purchaseStorage, issued, call>>

(***************************************************************************)
(* Bounds of the model.                                                    *)
(***************************************************************************)
\* calls of generateUUID in one run
MaxGen == 2

(***************************************************************************)
(* Characters and hexadecimal formatting.                                  *)
(***************************************************************************)
HexChars == <<"0", "1", "2", "3", "4", "5", "6", "7", "8", "9", "a", "b", "c", "d", "e", "f">>

LowerHex == {HexChars[i] : i \in 1..Len(HexChars)}

UpperOf(c) ==
    CASE c = "a" -> "A" [] c = "b" -> "B" [] c = "c" -> "C"
      [] c = "d" -> "D" [] c = "e" -> "E" [] c = "f" -> "F" [] OTHER -> c

toUpperCase(s) == [i \in 1..Len(s) |-> UpperOf(s[i])]

\* b.toString(16).padStart(2, "0") for a byte b
toHex2(b) == <<HexChars[(b \div 16) + 1], HexChars[(b % 16) + 1]>>

\* String.prototype.substr(start, length), start counted from 0
substr(s, start, length) == SubSeq(s, start + 1, start + length)

RECURSIVE BitAnd(_, _)
BitAnd(a, b) ==
    IF a = 0 \/ b = 0 THEN 0
    ELSE (IF a % 2 = 1 /\ b % 2 = 1 THEN 1 ELSE 0) + 2 * BitAnd(a \div 2, b \div 2)

RECURSIVE BitOr(_, _)
BitOr(a, b) ==
    IF a = 0 THEN b
    ELSE IF b = 0 THEN a
    ELSE (IF a % 2 = 1 \/ b % 2 = 1 THEN 1 ELSE 0) + 2 * BitOr(a \div 2, b \div 2)

(***************************************************************************)
(* The identifier generator.  sha256 over the clock and 32 random bytes is *)
(* an external collaborator whose outcome the canister does not control:   *)
(* every call of generateUUID obtains one of the digests of Digests, any   *)
(* of them, the one of an earlier call included.                           *)
(***************************************************************************)
\* two digests as sha256 yields them
DigestA ==
    <<6, 28, 79, 121, 254, 7, 220, 2, 185, 208, 246, 213, 130, 186, 142, 252,
      25, 193, 165, 123, 120, 225, 84, 172, 169, 187, 13, 148, 100, 157, 181, 133>>

DigestB ==
    <<39, 17, 145, 3, 124, 194, 197, 191, 152, 238, 110, 84, 174, 178, 5, 68,
      249, 85, 240, 76, 111, 254, 235, 212, 241, 119, 73, 26, 90, 142, 63, 58>>

Digests == {DigestA, DigestB}

\* a family of digests in which every byte value occurs at every position
ProbeDigests == {[i \in 1..32 |-> (b + 37 * i) % 256] : b \in 0..255}

\* Array.from(hashBytes).map(b => b.toString(16).padStart(2, "0")).join("")
hashBytesString(hashBytes) ==
    [i \in 1..(2 * Len(hashBytes)) |->
        toHex2(hashBytes[(i + 1) \div 2])[IF i % 2 = 1 THEN 1 ELSE 2]]

generateUUIDFrom(hashBytes) ==
    LET h == hashBytesString(hashBytes)
    IN  substr(h, 0, 8) \o <<"-">> \o substr(h, 8, 4) \o <<"-", "4">> \o substr(h, 13, 3)
          \o <<"-">> \o toHex2(BitOr(BitAnd(hashBytes[17], 63), 128)) \o substr(h, 17, 2)
          \o <<"-">> \o substr(h, 20, 12)

\* the identifiers of the digests of Digests
Issue == [hashBytes \in Digests |-> generateUUIDFrom(hashBytes)]

\* generateUUID() in a call that obtains the digest hashBytes
generateUUID(hashBytes) == Issue[hashBytes]

(***************************************************************************)
(* The validators.                                                         *)
(***************************************************************************)
\* [a-f\d] under the flag i
HexDigits == LowerHex \cup {"A", "B", "C", "D", "E", "F"}

\* /^[a-f\d]{8}-[a-f\d]{4}-[a-f\d]{4}-[a-f\d]{4}-[a-f\d]{12}$/i
isValidUUID(uuid) ==
    /\ Len(uuid) = 36
    /\ \A i \in 1..36 :
          IF i = 9 \/ i = 14 \/ i = 19 \/ i = 24
          THEN uuid[i] = "-"
          ELSE uuid[i] \in HexDigits

\* typeof payload === "object" && Object.keys(payload).length > 0
isValidPayload(payload) == DOMAIN payload # {}

(***************************************************************************)
(* Records, options and results.                                           *)
(***************************************************************************)
\* the object spread { ...a, ...b }: the fields of b win
Spread(a, b) ==
    [k \in (DOMAIN a) \cup (DOMAIN b) |-> IF k \in DOMAIN b THEN b[k] ELSE a[k]]

Ok(v) == [Ok |-> v]
Err(m) == [Err |-> m]

InvalidPayload(text) == [InvalidPayload |-> text]
NotFound(entity, id) == [NotFound |-> <<entity, " with id=", id, " not found">>]

isOk(ret) == "Ok" \in DOMAIN ret
isErr(ret, kind) == "Err" \in DOMAIN ret /\ kind \in DOMAIN ret.Err

(***************************************************************************)
(* The entity store, StableBTreeMap: a function from its keys to records.  *)
(***************************************************************************)
Some(v) == [Some |-> v]
None == [None |-> "null"]

\* opt.hasOwnProperty("Some")
hasSome(opt) == "Some" \in DOMAIN opt

containsKey(store, key) == key \in DOMAIN store

get(store, key) == IF key \in DOMAIN store THEN Some(store[key]) ELSE None

insert(store, key, value) ==
    [k \in (DOMAIN store) \cup {key} |-> IF k = key THEN value ELSE store[k]]

remove(store, key) == [k \in (DOMAIN store) \ {key} |-> store[k]]

(***************************************************************************)
(* The canister state as one value, and the outcome of a call: the state   *)
(* it leaves and the value it returns.                                     *)
(***************************************************************************)
DB ==
    [customerStorage |-> customerStorage,
     interactionStorage |-> interactionStorage,
     purchaseStorage |-> purchaseStorage,
     issued |-> issued]

Outcome(db, ret) == [db |-> db, ret |-> ret]

(***************************************************************************)
(* Customer operations.                                                    *)
(***************************************************************************)
getCustomer(db, id) ==
    IF ~isValidUUID(id) THEN Outcome(db, Err(InvalidPayload("Invalid UUID")))
    ELSE LET customerOpt == get(db.customerStorage, id)
         IN  IF ~hasSome(customerOpt) THEN Outcome(db, Err(NotFound("Customer", id)))
             ELSE Outcome(db, Ok(customerOpt.Some))

addCustomer(db, payload, hashBytes) ==
    IF ~isValidPayload(payload) THEN Outcome(db, Err(InvalidPayload("Invalid payload")))
    ELSE LET customer == Spread(Spread([id |-> generateUUID(hashBytes)], payload),
                                [interactions |-> <<>>, purchases |-> <<>>])
         IN  Outcome([db EXCEPT !.issued = Append(db.issued, generateUUID(hashBytes)),
                                !.customerStorage = insert(db.customerStorage, customer.id, customer)],
                     Ok(customer))


\* mutant: the stored lists survive the update
updateCustomer_keepLists(db, payload) ==
    IF ~containsKey(db.customerStorage, payload.id)
    THEN Outcome(db, Err(NotFound("Customer", payload.id)))
    ELSE LET kept == [payload EXCEPT
                         !.interactions = db.customerStorage[payload.id].interactions,
                         !.purchases = db.customerStorage[payload.id].purchases]
         IN  Outcome([db EXCEPT !.customerStorage = insert(db.customerStorage, payload.id, kept)],
                     Ok(payload))

\* mutant: the lists of the record are appended to the stored ones
updateCustomer_merge(db, payload) ==
    IF ~containsKey(db.customerStorage, payload.id)
    THEN Outcome(db, Err(NotFound("Customer", payload.id)))
    ELSE LET merged == [payload EXCEPT
                           !.interactions = db.customerStorage[payload.id].interactions \o @,
                           !.purchases = db.customerStorage[payload.id].purchases \o @]
         IN  Outcome([db EXCEPT !.customerStorage = insert(db.customerStorage, payload.id, merged)],
                     Ok(merged))

updateCustomer(db, payload) ==
    IF ~containsKey(db.customerStorage, payload.id)
    THEN Outcome(db, Err(NotFound("Customer", payload.id)))
    ELSE Outcome([db EXCEPT !.customerStorage = insert(db.customerStorage, payload.id, payload)],
                 Ok(payload))


\* mutant: the customer is looked up, not removed
deleteCustomer_lookupOnly(db, id) ==
    IF ~isValidUUID(id) THEN Outcome(db, Err(InvalidPayload("Invalid UUID")))
    ELSE LET deletedCustomerOpt == get(db.customerStorage, id)
         IN  IF ~hasSome(deletedCustomerOpt) THEN Outcome(db, Err(NotFound("Customer", id)))
             ELSE Outcome(db, Ok(deletedCustomerOpt.Some.id))

deleteCustomer(db, id) ==
    IF ~isValidUUID(id) THEN Outcome(db, Err(InvalidPayload("Invalid UUID")))
    ELSE LET deletedCustomerOpt == get(db.customerStorage, id)
         IN  IF ~hasSome(deletedCustomerOpt)
             THEN Outcome([db EXCEPT !.customerStorage = remove(db.customerStorage, id)],
                          Err(NotFound("Customer", id)))
             ELSE Outcome([db EXCEPT !.customerStorage = remove(db.customerStorage, id)],
                          Ok(deletedCustomerOpt.Some.id))

(***************************************************************************)
(* Interaction operations.                                                 *)
(***************************************************************************)

\* mutant: the standalone store is written first
addInteractionFirstWrite_standaloneFirst(db, customerId, payload, hashBytes) ==
    IF ~isValidUUID(customerId) THEN Outcome(db, Err(InvalidPayload("Invalid customer UUID")))
    ELSE IF ~isValidPayload(payload) THEN Outcome(db, Err(InvalidPayload("Invalid payload")))
    ELSE LET interaction == Spread([id |-> generateUUID(hashBytes)], payload)
             db1 == [db EXCEPT !.issued = Append(db.issued, generateUUID(hashBytes))]
             customerOpt == get(db.customerStorage, customerId)
         IN  IF ~hasSome(customerOpt) THEN Outcome(db1, Err(NotFound("Customer", customerId)))
             ELSE Outcome([db1 EXCEPT !.interactionStorage =
                                          insert(db.interactionStorage, interaction.id, interaction)],
                          [Pending |-> interaction])

\* addInteraction up to and including its first write, the one to the
\* customer store; Pending carries the record still to be written
addInteractionFirstWrite(db, customerId, payload, hashBytes) ==
    IF ~isValidUUID(customerId) THEN Outcome(db, Err(InvalidPayload("Invalid customer UUID")))
    ELSE IF ~isValidPayload(payload) THEN Outcome(db, Err(InvalidPayload("Invalid payload")))
    ELSE LET interaction == Spread([id |-> generateUUID(hashBytes)], payload)
             db1 == [db EXCEPT !.issued = Append(db.issued, generateUUID(hashBytes))]
             customerOpt == get(db.customerStorage, customerId)
         IN  IF ~hasSome(customerOpt) THEN Outcome(db1, Err(NotFound("Customer", customerId)))
             ELSE LET customer == [customerOpt.Some EXCEPT
                                      !.interactions = Append(@, interaction)]
                  IN  Outcome([db1 EXCEPT !.customerStorage =
                                              insert(db.customerStorage, customer.id, customer)],
                              [Pending |-> interaction])


\* mutant: the new record goes to the front of the customer's list
addInteraction_unshift(db, customerId, payload, hashBytes) ==
    IF ~isValidUUID(customerId) THEN Outcome(db, Err(InvalidPayload("Invalid customer UUID")))
    ELSE IF ~isValidPayload(payload) THEN Outcome(db, Err(InvalidPayload("Invalid payload")))
    ELSE LET interaction == Spread([id |-> generateUUID(hashBytes)], payload)
             db1 == [db EXCEPT !.issued = Append(db.issued, generateUUID(hashBytes))]
             customerOpt == get(db.customerStorage, customerId)
         IN  IF ~hasSome(customerOpt) THEN Outcome(db1, Err(NotFound("Customer", customerId)))
             ELSE LET customer == [customerOpt.Some EXCEPT
                                      !.interactions = <<interaction>> \o @]
                  IN  Outcome([db1 EXCEPT
                                  !.customerStorage = insert(db.customerStorage, customer.id, customer),
                                  !.interactionStorage = insert(db.interactionStorage, interaction.id, interaction)],
                              Ok(interaction.id))

\* the whole call: the second write, to the interaction store, and the reply
addInteraction(db, customerId, payload, hashBytes) ==
    LET first == addInteractionFirstWrite(db, customerId, payload, hashBytes)
    IN  IF "Pending" \notin DOMAIN first.ret THEN first
        ELSE LET interaction == first.ret.Pending
             IN  Outcome([first.db EXCEPT !.interactionStorage =
                                insert(first.db.interactionStorage, interaction.id, interaction)],
                         Ok(interaction.id))

getCustomerInteractions(db, customerId) ==
    IF ~isValidUUID(customerId) THEN Outcome(db, <<>>)
    ELSE LET customerOpt == get(db.customerStorage, customerId)
         IN  IF ~hasSome(customerOpt) THEN Outcome(db, <<>>)
             ELSE Outcome(db, customerOpt.Some.interactions)

getInteraction(db, id) ==
    IF ~isValidUUID(id) THEN Outcome(db, Err(InvalidPayload("Invalid UUID")))
    ELSE LET interactionOpt == get(db.interactionStorage, id)
         IN  IF ~hasSome(interactionOpt) THEN Outcome(db, Err(NotFound("Interaction", id)))
             ELSE Outcome(db, Ok(interactionOpt.Some))


\* mutant: the embedded copies with the same id are rewritten too
updateInteraction_sync(db, payload) ==
    IF ~containsKey(db.interactionStorage, payload.id)
    THEN Outcome(db, Err(NotFound("Interaction", payload.id)))
    ELSE Outcome([db EXCEPT
                     !.interactionStorage = insert(db.interactionStorage, payload.id, payload),
                     !.customerStorage =
                         [c \in DOMAIN db.customerStorage |->
                             [db.customerStorage[c] EXCEPT !.interactions =
                                 [i \in 1..Len(@) |-> IF @[i].id = payload.id THEN payload ELSE @[i]]]]],
                 Ok(payload))

updateInteraction(db, payload) ==
    IF ~containsKey(db.interactionStorage, payload.id)
    THEN Outcome(db, Err(NotFound("Interaction", payload.id)))
    ELSE Outcome([db EXCEPT !.interactionStorage = insert(db.interactionStorage, payload.id, payload)],
                 Ok(payload))


\* mutant: the delete cascades into the embedded lists
deleteInteraction_cascade(db, id) ==
    IF ~isValidUUID(id) THEN Outcome(db, Err(InvalidPayload("Invalid UUID")))
    ELSE LET deletedInteractionOpt == get(db.interactionStorage, id)
         IN  IF ~hasSome(deletedInteractionOpt) THEN Outcome(db, Err(NotFound("Interaction", id)))
             ELSE Outcome([db EXCEPT
                              !.interactionStorage = remove(db.interactionStorage, id),
                              !.customerStorage =
                                  [c \in DOMAIN db.customerStorage |->
                                      [db.customerStorage[c] EXCEPT !.interactions =
                                          SelectSeq(@, LAMBDA e : e.id # id)]]],
                          Ok(deletedInteractionOpt.Some.id))

deleteInteraction(db, id) ==
    IF ~isValidUUID(id) THEN Outcome(db, Err(InvalidPayload("Invalid UUID")))
    ELSE LET deletedInteractionOpt == get(db.interactionStorage, id)
         IN  IF ~hasSome(deletedInteractionOpt)
             THEN Outcome([db EXCEPT !.interactionStorage = remove(db.interactionStorage, id)],
                          Err(NotFound("Interaction", id)))
             ELSE Outcome([db EXCEPT !.interactionStorage = remove(db.interactionStorage, id)],
                          Ok(deletedInteractionOpt.Some.id))

(***************************************************************************)
(* Purchase operations.                                                    *)
(***************************************************************************)
\* addPurchase up to and including its first write, the one to the customer
\* store; Pending carries the record still to be written
addPurchaseFirstWrite(db, customerId, payload, hashBytes) ==
    IF ~isValidUUID(customerId) THEN Outcome(db, Err(InvalidPayload("Invalid customer UUID")))
    ELSE IF ~isValidPayload(payload) THEN Outcome(db, Err(InvalidPayload("Invalid payload")))
    ELSE LET purchase == Spread([id |-> generateUUID(hashBytes)], payload)
             db1 == [db EXCEPT !.issued = Append(db.issued, generateUUID(hashBytes))]
             customerOpt == get(db.customerStorage, customerId)
         IN  IF ~hasSome(customerOpt) THEN Outcome(db1, Err(NotFound("Customer", customerId)))
             ELSE LET customer == [customerOpt.Some EXCEPT
                                      !.purchases = Append(@, purchase)]
                  IN  Outcome([db1 EXCEPT !.customerStorage =
                                              insert(db.customerStorage, customer.id, customer)],
                              [Pending |-> purchase])

\* the whole call: the second write, to the purchase store, and the reply
addPurchase(db, customerId, payload, hashBytes) ==
    LET first == addPurchaseFirstWrite(db, customerId, payload, hashBytes)
    IN  IF "Pending" \notin DOMAIN first.ret THEN first
        ELSE LET purchase == first.ret.Pending
             IN  Outcome([first.db EXCEPT !.purchaseStorage =
                                insert(first.db.purchaseStorage, purchase.id, purchase)],
                         Ok(purchase.id))

getCustomerPurchases(db, customerId) ==
    IF ~isValidUUID(customerId) THEN Outcome(db, <<>>)
    ELSE LET customerOpt == get(db.customerStorage, customerId)
         IN  IF ~hasSome(customerOpt) THEN Outcome(db, <<>>)
             ELSE Outcome(db, customerOpt.Some.purchases)


\* mutant: no format check before the lookup
getPurchase_noFormatCheck(db, id) ==
    LET purchaseOpt == get(db.purchaseStorage, id)
    IN  IF ~hasSome(purchaseOpt) THEN Outcome(db, Err(NotFound("Purchase", id)))
        ELSE Outcome(db, Ok(purchaseOpt.Some))

getPurchase(db, id) ==
    IF ~isValidUUID(id) THEN Outcome(db, Err(InvalidPayload("Invalid UUID")))
    ELSE LET purchaseOpt == get(db.purchaseStorage, id)
         IN  IF ~hasSome(purchaseOpt) THEN Outcome(db, Err(NotFound("Purchase", id)))
             ELSE Outcome(db, Ok(purchaseOpt.Some))


\* mutant: no existence check, the insert creates the record
updatePurchase_upsert(db, payload) ==
    Outcome([db EXCEPT !.purchaseStorage = insert(db.purchaseStorage, payload.id, payload)],
            Ok(payload))

updatePurchase(db, payload) ==
    IF ~containsKey(db.purchaseStorage, payload.id)
    THEN Outcome(db, Err(NotFound("Purchase", payload.id)))
    ELSE Outcome([db EXCEPT !.purchaseStorage = insert(db.purchaseStorage, payload.id, payload)],
                 Ok(payload))


\* mutant: the delete cascades into the embedded lists
deletePurchase_cascade(db, id) ==
    IF ~isValidUUID(id) THEN Outcome(db, Err(InvalidPayload("Invalid UUID")))
    ELSE LET deletedPurchaseOpt == get(db.purchaseStorage, id)
         IN  IF ~hasSome(deletedPurchaseOpt) THEN Outcome(db, Err(NotFound("Purchase", id)))
             ELSE Outcome([db EXCEPT
                              !.purchaseStorage = remove(db.purchaseStorage, id),
                              !.customerStorage =
                                  [c \in DOMAIN db.customerStorage |->
                                      [db.customerStorage[c] EXCEPT !.purchases =
                                          SelectSeq(@, LAMBDA e : e.id # id)]]],
                          Ok(deletedPurchaseOpt.Some.id))

deletePurchase(db, id) ==
    IF ~isValidUUID(id) THEN Outcome(db, Err(InvalidPayload("Invalid UUID")))
    ELSE LET deletedPurchaseOpt == get(db.purchaseStorage, id)
         IN  IF ~hasSome(deletedPurchaseOpt)
             THEN Outcome([db EXCEPT !.purchaseStorage = remove(db.purchaseStorage, id)],
                          Err(NotFound("Purchase", id)))
             ELSE Outcome([db EXCEPT !.purchaseStorage = remove(db.purchaseStorage, id)],
                          Ok(deletedPurchaseOpt.Some.id))

(***************************************************************************)
(* The requests the environment sends: identifiers, payloads and records   *)
(* drawn from small sets.                                                  *)
(***************************************************************************)
\* the identifiers issued so far: the ones a caller can have been handed
IssuedIds == {issued[k] : k \in 1..Len(issued)}

\* well-formed, yet never a key: the format check ignores case, keys are
\* compared exactly, and the generator writes its hexadecimal digits in lower
\* case whatever the digest (DigestA yields letters, so this one differs)
UpperCaseId == toUpperCase(generateUUID(DigestA))

\* one character short of the pattern
MalformedId == substr(generateUUID(DigestA), 0, 35)

IdInputs == IssuedIds \cup {UpperCaseId, MalformedId}

\* Object with no field: the one payload isValidPayload rejects
EmptyPayload == [k \in {} |-> ""]

CustomerPayloads ==
    {[name |-> "Acme", company |-> "Acme Co", email |-> "a@acme.com", phone |-> "555-0100"],
     [name |-> "Bolt", company |-> "Bolt Ltd", email |-> "b@bolt.io", phone |-> "555-0199"]}

InteractionPayloads ==
    {[date |-> "2024-01-05", interaction_type |-> "call", description |-> "intro",
      status |-> "Open", comments |-> "none"],
     [date |-> "2024-02-09", interaction_type |-> "email", description |-> "follow-up",
      status |-> "closed", comments |-> "done"]}

PurchasePayloads ==
    {[date |-> "2024-01-05", product |-> "widget", quantity |-> 1, price |-> 10],
     [date |-> "2024-03-01", product |-> "gadget", quantity |-> 0, price |-> 0]}

\* an embedded entry that no add ever produced, as a caller of updateCustomer
\* can supply it
ForeignInteraction ==
    [id |-> UpperCaseId, date |-> "1999-12-31", interaction_type |-> "visit",
     description |-> "forged", status |-> "Open", comments |-> "none"]

ForeignPurchase ==
    [id |-> UpperCaseId, date |-> "1999-12-31", product |-> "forged", quantity |-> 7, price |-> 7]

\* a list without its last entry
DropLast(list) == SubSeq(list, 1, Len(list) - 1)

\* the lists a caller of updateCustomer sends for customer id: the stored
\* ones (read back and sent again), the stored ones with the last entry
\* taken out, or ones of its own making
ListInputs(id) ==
    (IF id \in DOMAIN customerStorage
     THEN {<<customerStorage[id].interactions, customerStorage[id].purchases>>,
           <<DropLast(customerStorage[id].interactions), DropLast(customerStorage[id].purchases)>>}
     ELSE {<<<<>>, <<>>>>})
    \cup {<<<<ForeignInteraction>>, <<ForeignPurchase>>>>}

CustomerInputs ==
    UNION {{Spread(Spread([id |-> id], p), [interactions |-> l[1], purchases |-> l[2]]) :
              p \in CustomerPayloads, l \in ListInputs(id)} :
           id \in IdInputs}

InteractionInputs == {Spread([id |-> id], p) : id \in IdInputs, p \in InteractionPayloads}

PurchaseInputs == {Spread([id |-> id], p) : id \in IdInputs, p \in PurchasePayloads}

(***************************************************************************)
(* The canister serves one call at a time, each running to completion.     *)
(* call is the call in flight: once served it holds the call's name, its   *)
(* arguments, the state the call found and the value going back to the     *)
(* caller; Reply hands that value over and the next call can start.        *)
(***************************************************************************)
Idle == [op |-> "idle"]

\* a call that does not reach generateUUID obtains no digest
NoDigest == <<>>

Serve(op, arg, hashBytes, out) ==
    /\ customerStorage' = out.db.customerStorage
    /\ interactionStorage' = out.db.interactionStorage
    /\ purchaseStorage' = out.db.purchaseStorage
    /\ issued' = out.db.issued
    /\ call' = [op |-> op, arg |-> arg, hashBytes |-> hashBytes, before |-> DB, ret |-> out.ret]

Init ==
    /\ customerStorage = <<>>
    /\ interactionStorage = <<>>
    /\ purchaseStorage = <<>>
    /\ issued = <<>>
    /\ call = Idle

Call_getCustomer ==
    /\ call.op = "idle"
    /\ \E id \in IdInputs : Serve("getCustomer", <<id>>, NoDigest, getCustomer(DB, id))

Call_addCustomer ==
    /\ call.op = "idle"
    /\ Len(issued) < MaxGen
    /\ \E payload \in CustomerPayloads \cup {EmptyPayload}, hashBytes \in Digests :
          Serve("addCustomer", <<payload>>, hashBytes, addCustomer(DB, payload, hashBytes))

Call_updateCustomer ==
    /\ call.op = "idle"
    /\ \E payload \in CustomerInputs :
          Serve("updateCustomer", <<payload>>, NoDigest, updateCustomer(DB, payload))

Call_deleteCustomer ==
    /\ call.op = "idle"
    /\ \E id \in IdInputs : Serve("deleteCustomer", <<id>>, NoDigest, deleteCustomer(DB, id))

Call_addInteraction ==
    /\ call.op = "idle"
    /\ Len(issued) < MaxGen
    /\ \E customerId \in IdInputs, payload \in InteractionPayloads \cup {EmptyPayload},
          hashBytes \in Digests :
          Serve("addInteraction", <<customerId, payload>>, hashBytes,
                addInteraction(DB, customerId, payload, hashBytes))

Call_getCustomerInteractions ==
    /\ call.op = "idle"
    /\ \E id \in IdInputs :
          Serve("getCustomerInteractions", <<id>>, NoDigest, getCustomerInteractions(DB, id))

Call_getInteraction ==
    /\ call.op = "idle"
    /\ \E id \in IdInputs : Serve("getInteraction", <<id>>, NoDigest, getInteraction(DB, id))

Call_updateInteraction ==
    /\ call.op = "idle"
    /\ \E payload \in InteractionInputs :
          Serve("updateInteraction", <<payload>>, NoDigest, updateInteraction(DB, payload))

Call_deleteInteraction ==
    /\ call.op = "idle"
    /\ \E id \in IdInputs : Serve("deleteInteraction", <<id>>, NoDigest, deleteInteraction(DB, id))

Call_addPurchase ==
    /\ call.op = "idle"
    /\ Len(issued) < MaxGen
    /\ \E customerId \in IdInputs, payload \in PurchasePayloads \cup {EmptyPayload},
          hashBytes \in Digests :
          Serve("addPurchase", <<customerId, payload>>, hashBytes,
                addPurchase(DB, customerId, payload, hashBytes))

Call_getCustomerPurchases ==
    /\ call.op = "idle"
    /\ \E id \in IdInputs :
          Serve("getCustomerPurchases", <<id>>, NoDigest, getCustomerPurchases(DB, id))

Call_getPurchase ==
    /\ call.op = "idle"
    /\ \E id \in IdInputs : Serve("getPurchase", <<id>>, NoDigest, getPurchase(DB, id))

Call_updatePurchase ==
    /\ call.op = "idle"
    /\ \E payload \in PurchaseInputs :
          Serve("updatePurchase", <<payload>>, NoDigest, updatePurchase(DB, payload))

Call_deletePurchase ==
    /\ call.op = "idle"
    /\ \E id \in IdInputs : Serve("deletePurchase", <<id>>, NoDigest, deletePurchase(DB, id))

\* the process stops between the two writes of an add: the customer store
\* holds the new entry, the standalone store never receives it, no reply
Crash_addInteraction ==
    /\ call.op = "idle"
    /\ Len(issued) < MaxGen
    /\ \E customerId \in IdInputs, payload \in InteractionPayloads, hashBytes \in Digests :
          LET first == addInteractionFirstWrite(DB, customerId, payload, hashBytes)
          IN  /\ "Pending" \in DOMAIN first.ret
              /\ Serve("addInteraction", <<customerId, payload>>, hashBytes, first)

Crash_addPurchase ==
    /\ call.op = "idle"
    /\ Len(issued) < MaxGen
    /\ \E customerId \in IdInputs, payload \in PurchasePayloads, hashBytes \in Digests :
          LET first == addPurchaseFirstWrite(DB, customerId, payload, hashBytes)
          IN  /\ "Pending" \in DOMAIN first.ret
              /\ Serve("addPurchase", <<customerId, payload>>, hashBytes, first)

Reply ==
    /\ call.op # "idle"
    /\ call' = Idle
    /\ UNCHANGED <<customerStorage, interactionStorage, purchaseStorage, issued>>

Next ==
    \/ Call_getCustomer
    \/ Call_addCustomer
    \/ Call_updateCustomer
    \/ Call_deleteCustomer
    \/ Call_addInteraction
    \/ Call_getCustomerInteractions
    \/ Call_getInteraction
    \/ Call_updateInteraction
    \/ Call_deleteInteraction
    \/ Call_addPurchase
    \/ Call_getCustomerPurchases
    \/ Call_getPurchase
    \/ Call_updatePurchase
    \/ Call_deletePurchase
    \/ Reply

Spec == Init /\ [][Next]_vars

\* the same canister on a host that can stop between the two writes of an add
CrashNext ==
    \/ Next
    \/ Crash_addInteraction
    \/ Crash_addPurchase

CrashSpec == Init /\ [][CrashNext]_vars

\* the method table: the call named op, applied to arg
Dispatch(db, op, arg, hashBytes) ==
    CASE op = "getCustomer" -> getCustomer(db, arg[1])
      [] op = "addCustomer" -> addCustomer(db, arg[1], hashBytes)
      [] op = "updateCustomer" -> updateCustomer(db, arg[1])
      [] op = "deleteCustomer" -> deleteCustomer(db, arg[1])
      [] op = "addInteraction" -> addInteraction(db, arg[1], arg[2], hashBytes)
      [] op = "getCustomerInteractions" -> getCustomerInteractions(db, arg[1])
      [] op = "getInteraction" -> getInteraction(db, arg[1])
      [] op = "updateInteraction" -> updateInteraction(db, arg[1])
      [] op = "deleteInteraction" -> deleteInteraction(db, arg[1])
      [] op = "addPurchase" -> addPurchase(db, arg[1], arg[2], hashBytes)
      [] op = "getCustomerPurchases" -> getCustomerPurchases(db, arg[1])
      [] op = "getPurchase" -> getPurchase(db, arg[1])
      [] op = "updatePurchase" -> updatePurchase(db, arg[1])
      [] op = "deletePurchase" -> deletePurchase(db, arg[1])


(***************************************************************************)
(* Shorthands for the properties: the three stores of a state, and the     *)
(* outcome of the call in flight.                                          *)
(***************************************************************************)
Stores(db) == <<db.customerStorage, db.interactionStorage, db.purchaseStorage>>

Served(op) == call.op = op

ServedOk(op) == call.op = op /\ isOk(call.ret)

\* the entries of a sequence
Entries(list) == {list[i] : i \in 1..Len(list)}

(***************************************************************************)
(* C1.  When addInteraction(customerId, P) returns Ok(newId), which it     *)
(* does exactly when customerId is well-formed and a key of the customer   *)
(* store and P is non-empty, newId is the identifier the call generated    *)
(* (whether or not an earlier call obtained the same one), the             *)
(* customer's interactions as getCustomerInteractions returns them are the *)
(* ones from before the call followed by the record {id: newId, ...P}, and *)
(* getInteraction(newId) returns Ok of that record.  The same for          *)
(* addPurchase with getCustomerPurchases and getPurchase.                  *)
(***************************************************************************)
C1_AddIsListedAndStored ==
    /\ Served("addInteraction") =>
          LET customerId == call.arg[1]
              P == call.arg[2]
          IN  /\ isOk(call.ret) <=> /\ isValidUUID(customerId)
                                    /\ customerId \in DOMAIN call.before.customerStorage
                                    /\ isValidPayload(P)
              /\ isOk(call.ret) =>
                    LET newId == call.ret.Ok
                        I == Spread([id |-> newId], P)
                    IN  /\ newId = generateUUID(call.hashBytes)
                        /\ getCustomerInteractions(DB, customerId).ret =
                              Append(getCustomerInteractions(call.before, customerId).ret, I)
                        /\ getInteraction(DB, newId).ret = Ok(I)
    /\ Served("addPurchase") =>
          LET customerId == call.arg[1]
              P == call.arg[2]
          IN  /\ isOk(call.ret) <=> /\ isValidUUID(customerId)
                                    /\ customerId \in DOMAIN call.before.customerStorage
                                    /\ isValidPayload(P)
              /\ isOk(call.ret) =>
                    LET newId == call.ret.Ok
                        I == Spread([id |-> newId], P)
                    IN  /\ newId = generateUUID(call.hashBytes)
                        /\ getCustomerPurchases(DB, customerId).ret =
                              Append(getCustomerPurchases(call.before, customerId).ret, I)
                        /\ getPurchase(DB, newId).ret = Ok(I)

\* an interaction was added to a customer that already had an entry
C1_Witness ==
    /\ ServedOk("addInteraction")
    /\ Len(getCustomerInteractions(call.before, call.arg[1]).ret) > 0
    /\ isOk(getInteraction(DB, call.ret.Ok).ret)

(***************************************************************************)
(* C2.  How a call changes the embedded lists of the customers it leaves   *)
(* in the store.  ListsKept(c): both lists of customer c are as before.    *)
(* AddedInteraction(c): the call is a successful addInteraction on c, the  *)
(* interactions are the old ones followed by the snapshot {id, ...payload} *)
(* with the identifier the call generated and inserted in the interaction  *)
(* store, and the purchases are as before.  AddedPurchase(c) likewise.     *)
(* Replaced(c): the call is a successful updateCustomer whose record has   *)
(* id c, and both lists are the ones of that record.  Recreated(c): the    *)
(* call is a successful addCustomer for which the generator returned c, an *)
(* identifier that was a key already, and both lists are empty.            *)
(***************************************************************************)
ListsKept(c) ==
    /\ customerStorage[c].interactions = call.before.customerStorage[c].interactions
    /\ customerStorage[c].purchases = call.before.customerStorage[c].purchases

AddedInteraction(c) ==
    /\ ServedOk("addInteraction")
    /\ call.arg[1] = c
    /\ LET snapshot == Spread([id |-> generateUUID(call.hashBytes)], call.arg[2])
       IN  /\ customerStorage[c].interactions =
                 Append(call.before.customerStorage[c].interactions, snapshot)
           /\ snapshot.id \in DOMAIN interactionStorage
           /\ interactionStorage[snapshot.id] = snapshot
    /\ customerStorage[c].purchases = call.before.customerStorage[c].purchases

AddedPurchase(c) ==
    /\ ServedOk("addPurchase")
    /\ call.arg[1] = c
    /\ LET snapshot == Spread([id |-> generateUUID(call.hashBytes)], call.arg[2])
       IN  /\ customerStorage[c].purchases =
                 Append(call.before.customerStorage[c].purchases, snapshot)
           /\ snapshot.id \in DOMAIN purchaseStorage
           /\ purchaseStorage[snapshot.id] = snapshot
    /\ customerStorage[c].interactions = call.before.customerStorage[c].interactions

Replaced(c) ==
    /\ ServedOk("updateCustomer")
    /\ call.arg[1].id = c
    /\ customerStorage[c].interactions = call.arg[1].interactions
    /\ customerStorage[c].purchases = call.arg[1].purchases

\* a customer that the call created starts with both lists empty
StartsEmpty(c) ==
    /\ ServedOk("addCustomer")
    /\ c = generateUUID(call.hashBytes)
    /\ customerStorage[c].interactions = <<>>
    /\ customerStorage[c].purchases = <<>>

Recreated(c) ==
    /\ c \in DOMAIN call.before.customerStorage
    /\ StartsEmpty(c)

\* C2 as stated: the embedded lists are populated only at add-time, every
\* entry is a snapshot made by a successful add on that customer (so its id
\* is an issued one), and no other call adds, removes or rewrites entries.
\* The statement is read for a generator that returns no customer key again:
\* a call with Recreated(c) is left aside.
C2_OnlyAddsPopulate ==
    /\ \A c \in DOMAIN customerStorage :
          \A e \in Entries(customerStorage[c].interactions) \cup Entries(customerStorage[c].purchases) :
              e.id \in IssuedIds
    /\ call.op # "idle" =>
          \A c \in DOMAIN customerStorage :
              IF c \in DOMAIN call.before.customerStorage
              THEN ListsKept(c) \/ AddedInteraction(c) \/ AddedPurchase(c) \/ Recreated(c)
              ELSE StartsEmpty(c)

\* C2 as amended: a successful updateCustomer on the customer replaces both
\* lists by the ones of the record it is given, and an addCustomer whose
\* generated id is the customer's key replaces the customer by one with empty
\* lists; apart from that the lists change only by an add appending its
\* snapshot.
C2_AddsAppendUpdateReplaces ==
    call.op # "idle" =>
        \A c \in DOMAIN customerStorage :
            IF c \in DOMAIN call.before.customerStorage
            THEN \/ ListsKept(c)
                 \/ AddedInteraction(c)
                 \/ AddedPurchase(c)
                 \/ Replaced(c)
                 \/ Recreated(c)
            ELSE StartsEmpty(c)

\* a purchase was appended to the list that an updateCustomer had supplied
C2_Witness ==
    /\ ServedOk("addPurchase")
    /\ AddedPurchase(call.arg[1])
    /\ ForeignPurchase \in Entries(customerStorage[call.arg[1]].purchases)

(***************************************************************************)
(* C3.  updateCustomer(C) with C.id a key of the customer store returns    *)
(* Ok(C) and stores C under C.id, every field as given, the lists          *)
(* included, and nothing else changes; getCustomer(C.id) then returns      *)
(* Ok(C): C.id passes the format check of getCustomer.                     *)
(***************************************************************************)
C3_UpdateCustomerReplacesExactly ==
    (Served("updateCustomer") /\ call.arg[1].id \in DOMAIN call.before.customerStorage) =>
        LET C == call.arg[1]
        IN  /\ call.ret = Ok(C)
            /\ customerStorage = insert(call.before.customerStorage, C.id, C)
            /\ customerStorage[C.id] = C
            /\ interactionStorage = call.before.interactionStorage
            /\ purchaseStorage = call.before.purchaseStorage
            /\ isValidUUID(C.id)
            /\ getCustomer(DB, C.id).ret = Ok(C)

\* a stored customer with a purchase was replaced by a record with other
\* fields and other lists
C3_Witness ==
    /\ ServedOk("updateCustomer")
    /\ call.before.customerStorage[call.arg[1].id].name # call.arg[1].name
    /\ call.before.customerStorage[call.arg[1].id].purchases # call.arg[1].purchases
    /\ call.before.customerStorage[call.arg[1].id].purchases # <<>>
    /\ getCustomer(DB, call.arg[1].id).ret = Ok(call.arg[1])

(***************************************************************************)
(* C4.  updateInteraction(I) with I.id a key of the interaction store      *)
(* returns Ok(I) and changes that one entry of the interaction store: the  *)
(* customer store, hence every embedded copy and every answer of           *)
(* getCustomerInteractions, and the purchase store are as before, and      *)
(* getInteraction(I.id) returns Ok(I).  The same for updatePurchase.       *)
(***************************************************************************)
C4_UpdateLeavesEmbeddedCopy ==
    /\ (Served("updateInteraction") /\ call.arg[1].id \in DOMAIN call.before.interactionStorage) =>
          LET I == call.arg[1]
          IN  /\ call.ret = Ok(I)
              /\ interactionStorage = insert(call.before.interactionStorage, I.id, I)
              /\ customerStorage = call.before.customerStorage
              /\ purchaseStorage = call.before.purchaseStorage
              /\ getInteraction(DB, I.id).ret = Ok(I)
              /\ \A c \in IdInputs :
                    getCustomerInteractions(DB, c).ret = getCustomerInteractions(call.before, c).ret
    /\ (Served("updatePurchase") /\ call.arg[1].id \in DOMAIN call.before.purchaseStorage) =>
          LET P == call.arg[1]
          IN  /\ call.ret = Ok(P)
              /\ purchaseStorage = insert(call.before.purchaseStorage, P.id, P)
              /\ customerStorage = call.before.customerStorage
              /\ interactionStorage = call.before.interactionStorage
              /\ getPurchase(DB, P.id).ret = Ok(P)
              /\ \A c \in IdInputs :
                    getCustomerPurchases(DB, c).ret = getCustomerPurchases(call.before, c).ret

\* after the update the standalone record and the embedded copy with the
\* same id differ
C4_Witness ==
    /\ ServedOk("updateInteraction")
    /\ \E c \in DOMAIN customerStorage :
          \E e \in Entries(customerStorage[c].interactions) :
              /\ e.id = call.arg[1].id
              /\ e # call.arg[1]
              /\ e = call.before.interactionStorage[e.id]
              /\ interactionStorage[e.id] = call.arg[1]

(***************************************************************************)
(* C5.  deleteCustomer(id) with id well-formed and a key of the customer   *)
(* store returns Ok(id) and removes that key and no other; getCustomer(id) *)
(* then returns err NotFound, and a second deleteCustomer(id) returns err  *)
(* NotFound and changes nothing.  A key enters the customer store in one   *)
(* way only, as the identifier the generator returns to a successful       *)
(* addCustomer: an identifier that is no key before a call, a deleted one  *)
(* included, is no key after it unless the generator returned that very    *)
(* identifier to the call.  The generator draws identifiers at random and  *)
(* the code checks none for being new, so the claim's assumption is about  *)
(* the generator and the code adds nothing to it.                          *)
(***************************************************************************)
C5_DeleteCustomerLifecycle ==
    /\ (Served("deleteCustomer") /\ isValidUUID(call.arg[1])
          /\ call.arg[1] \in DOMAIN call.before.customerStorage) =>
          LET id == call.arg[1]
              again == deleteCustomer(DB, id)
          IN  /\ call.ret = Ok(id)
              /\ customerStorage = remove(call.before.customerStorage, id)
              /\ id \notin DOMAIN customerStorage
              /\ interactionStorage = call.before.interactionStorage
              /\ purchaseStorage = call.before.purchaseStorage
              /\ getCustomer(DB, id).ret = Err(NotFound("Customer", id))
              /\ again.ret = Err(NotFound("Customer", id))
              /\ again.db = DB
    /\ call.op # "idle" =>
          \A id \in (DOMAIN customerStorage) \ (DOMAIN call.before.customerStorage) :
              /\ ServedOk("addCustomer")
              /\ id = generateUUID(call.hashBytes)

\* a customer was deleted while another one stays stored
C5_Witness ==
    /\ ServedOk("deleteCustomer")
    /\ call.arg[1] \in DOMAIN call.before.customerStorage
    /\ call.arg[1] \notin DOMAIN customerStorage
    /\ DOMAIN customerStorage # {}

(***************************************************************************)
(* C6.  deleteInteraction(id) with id well-formed and a key of the         *)
(* interaction store returns Ok(id) and removes that key from the          *)
(* interaction store only: the customer store is as before, so every       *)
(* embedded list and every answer of getCustomerInteractions is, while     *)
(* getInteraction(id) returns err NotFound.  The same for deletePurchase.  *)
(***************************************************************************)
C6_DeleteLeavesEmbeddedCopy ==
    /\ (Served("deleteInteraction") /\ isValidUUID(call.arg[1])
          /\ call.arg[1] \in DOMAIN call.before.interactionStorage) =>
          LET id == call.arg[1]
          IN  /\ call.ret = Ok(id)
              /\ interactionStorage = remove(call.before.interactionStorage, id)
              /\ customerStorage = call.before.customerStorage
              /\ purchaseStorage = call.before.purchaseStorage
              /\ getInteraction(DB, id).ret = Err(NotFound("Interaction", id))
              /\ \A c \in IdInputs :
                    getCustomerInteractions(DB, c).ret = getCustomerInteractions(call.before, c).ret
    /\ (Served("deletePurchase") /\ isValidUUID(call.arg[1])
          /\ call.arg[1] \in DOMAIN call.before.purchaseStorage) =>
          LET id == call.arg[1]
          IN  /\ call.ret = Ok(id)
              /\ purchaseStorage = remove(call.before.purchaseStorage, id)
              /\ customerStorage = call.before.customerStorage
              /\ interactionStorage = call.before.interactionStorage
              /\ getPurchase(DB, id).ret = Err(NotFound("Purchase", id))
              /\ \A c \in IdInputs :
                    getCustomerPurchases(DB, c).ret = getCustomerPurchases(call.before, c).ret

\* the purchase is gone from the purchase store and still listed for its
\* customer
C6_Witness ==
    /\ ServedOk("deletePurchase")
    /\ call.arg[1] \notin DOMAIN purchaseStorage
    /\ \E c \in DOMAIN customerStorage :
          \E e \in Entries(getCustomerPurchases(DB, c).ret) : e.id = call.arg[1]

(***************************************************************************)
(* C7.  The reads.  getCustomer, getInteraction and getPurchase return err *)
(* InvalidPayload for a malformed id and err NotFound for a well-formed id *)
(* that is no key of their store; getCustomerInteractions and              *)
(* getCustomerPurchases return the empty sequence in both cases.  A read   *)
(* leaves the stores as they were, and no call returns InternalError.      *)
(***************************************************************************)
Reads == {"getCustomer", "getInteraction", "getPurchase",
          "getCustomerInteractions", "getCustomerPurchases"}

ListReads == {"getCustomerInteractions", "getCustomerPurchases"}

\* the store that a read by identifier looks into, as the call found it
StoreRead(op) ==
    CASE op = "getInteraction" -> call.before.interactionStorage
      [] op = "getPurchase" -> call.before.purchaseStorage
      [] OTHER -> call.before.customerStorage

\* C7: what the reads return for malformed and for missing ids, that they
\* change nothing, and that the only error kinds are NotFound and
\* InvalidPayload
C7_ReadsOfMissingIds ==
    /\ call.op \in Reads => DB = call.before
    /\ (call.op \in Reads \ ListReads /\ ~isValidUUID(call.arg[1])) =>
          isErr(call.ret, "InvalidPayload")
    /\ (call.op \in Reads \ ListReads /\ isValidUUID(call.arg[1])
          /\ call.arg[1] \notin DOMAIN StoreRead(call.op)) =>
          isErr(call.ret, "NotFound")
    /\ (call.op \in ListReads
          /\ (~isValidUUID(call.arg[1]) \/ call.arg[1] \notin DOMAIN StoreRead(call.op))) =>
          call.ret = <<>>
    /\ (call.op \notin ListReads \cup {"idle"} /\ ~isOk(call.ret)) =>
          /\ "Err" \in DOMAIN call.ret
          /\ DOMAIN call.ret.Err \subseteq {"NotFound", "InvalidPayload"}

\* the interactions of an issued, well-formed id that is no customer key
\* are asked for while records are stored
C7_Witness ==
    /\ Served("getCustomerInteractions")
    /\ isValidUUID(call.arg[1])
    /\ call.arg[1] \in IssuedIds
    /\ call.arg[1] \notin DOMAIN customerStorage
    /\ call.ret = <<>>
    /\ DOMAIN interactionStorage # {}

(***************************************************************************)
(* C8.  Re-issuing the call just served.                                   *)
(***************************************************************************)
Adds == {"addCustomer", "addInteraction", "addPurchase"}

\* the outcome of sending the call in flight once more, the generator
\* returning the identifier of hashBytes should the call reach it
Reissued(hashBytes) == Dispatch(DB, call.op, call.arg, hashBytes)

\* C8 as stated: for every operation, the request issued twice in a row
\* leaves the three stores as the request issued once does.
C8_EveryCallIdempotent ==
    call.op # "idle" => \A hashBytes \in Digests : Stores(Reissued(hashBytes).db) = Stores(DB)

\* C8 as amended: that holds of every read, update and delete and of every
\* add that fails.  A successful add succeeds again when re-issued, with the
\* identifier the generator returns then: addInteraction and addPurchase
\* append one more entry to the customer's list and insert the record in
\* the standalone store, addCustomer inserts a customer with empty lists;
\* the store gains a key unless that identifier is one of its keys already.
C8_IdempotentExceptAdds ==
    call.op # "idle" =>
        \A hashBytes \in Digests :
            LET again == Reissued(hashBytes)
                newId == generateUUID(hashBytes)
            IN  IF call.op \in Adds /\ isOk(call.ret)
                THEN /\ isOk(again.ret)
                     /\ call.op = "addCustomer" =>
                           /\ again.ret.Ok = [call.ret.Ok EXCEPT !.id = newId]
                           /\ again.db.customerStorage =
                                 insert(customerStorage, newId, again.ret.Ok)
                           /\ newId \notin DOMAIN customerStorage =>
                                 Stores(again.db) # Stores(DB)
                     /\ call.op = "addInteraction" =>
                           /\ again.ret = Ok(newId)
                           /\ again.db.interactionStorage =
                                 insert(interactionStorage, newId,
                                        Spread([id |-> newId], call.arg[2]))
                           /\ again.db.customerStorage[call.arg[1]].interactions =
                                 Append(customerStorage[call.arg[1]].interactions,
                                        Spread([id |-> newId], call.arg[2]))
                           /\ Stores(again.db) # Stores(DB)
                     /\ call.op = "addPurchase" =>
                           /\ again.ret = Ok(newId)
                           /\ again.db.purchaseStorage =
                                 insert(purchaseStorage, newId,
                                        Spread([id |-> newId], call.arg[2]))
                           /\ again.db.customerStorage[call.arg[1]].purchases =
                                 Append(customerStorage[call.arg[1]].purchases,
                                        Spread([id |-> newId], call.arg[2]))
                           /\ Stores(again.db) # Stores(DB)
                ELSE Stores(again.db) = Stores(DB)

\* an update that changed a stored customer is about to be re-issued
C8_Witness ==
    /\ ServedOk("updateCustomer")
    /\ customerStorage # call.before.customerStorage
    /\ call.before.customerStorage[call.arg[1].id].interactions # <<>>
    /\ \A hashBytes \in Digests : Stores(Reissued(hashBytes).db) = Stores(DB)

(***************************************************************************)
(* C9.  On a host that can stop between the two writes of an add           *)
(* (CrashSpec).  Crashed(op): the call in flight is an op that made its    *)
(* first write and stopped.  Dangling(db, c, e): customer c of db lists    *)
(* the interaction e, and e.id is no key of the interaction store of db.   *)
(***************************************************************************)
Crashed(op) == call.op = op /\ "Pending" \in DOMAIN call.ret

Dangling(db, c, e) ==
    /\ c \in DOMAIN db.customerStorage
    /\ e \in Entries(db.customerStorage[c].interactions)
    /\ e.id \notin DOMAIN db.interactionStorage

DanglingPurchase(db, c, e) ==
    /\ c \in DOMAIN db.customerStorage
    /\ e \in Entries(db.customerStorage[c].purchases)
    /\ e.id \notin DOMAIN db.purchaseStorage

\* the customer-store write is the first of the two: where the add stops
\* between them the customer lists the new record, last, and the
\* standalone store is untouched: it has no such key, unless the generator
\* returned an identifier that was a key of it already
StopsAfterCustomerWrite ==
    /\ Crashed("addInteraction") =>
          LET c == call.arg[1]
              I == call.ret.Pending
          IN  /\ I = Spread([id |-> generateUUID(call.hashBytes)], call.arg[2])
              /\ getCustomerInteractions(DB, c).ret =
                    Append(getCustomerInteractions(call.before, c).ret, I)
              /\ interactionStorage = call.before.interactionStorage
              /\ purchaseStorage = call.before.purchaseStorage
              /\ I.id \notin DOMAIN call.before.interactionStorage =>
                    /\ Dangling(DB, c, I)
                    /\ getInteraction(DB, I.id).ret = Err(NotFound("Interaction", I.id))
    /\ Crashed("addPurchase") =>
          LET c == call.arg[1]
              P == call.ret.Pending
          IN  /\ P = Spread([id |-> generateUUID(call.hashBytes)], call.arg[2])
              /\ getCustomerPurchases(DB, c).ret =
                    Append(getCustomerPurchases(call.before, c).ret, P)
              /\ purchaseStorage = call.before.purchaseStorage
              /\ interactionStorage = call.before.interactionStorage
              /\ P.id \notin DOMAIN call.before.purchaseStorage =>
                    /\ DanglingPurchase(DB, c, P)
                    /\ getPurchase(DB, P.id).ret = Err(NotFound("Purchase", P.id))

\* an add that fails validation or the customer lookup makes neither write
FailedAddWritesNothing ==
    (call.op \in {"addInteraction", "addPurchase"} /\ "Err" \in DOMAIN call.ret) =>
        Stores(DB) = Stores(call.before)

\* the call reached the generator and obtained an identifier issued before
Regenerated ==
    /\ call.op \in Adds
    /\ Len(issued) > Len(call.before.issued)
    /\ generateUUID(call.hashBytes) \in {call.before.issued[k] : k \in 1..Len(call.before.issued)}

\* C9 as stated: the add stopped between its writes leaves a dangling
\* entry, a failed add writes nothing, and no later call repairs a dangling
\* entry: while its customer is stored, what dangles before a call dangles
\* after it.  The statement is read for a generator that returns no
\* identifier twice: a call with Regenerated is left aside.
C9_DivergenceNeverRepaired ==
    /\ StopsAfterCustomerWrite
    /\ FailedAddWritesNothing
    /\ (call.op # "idle" /\ ~Regenerated) =>
          \A c \in DOMAIN call.before.customerStorage \cap DOMAIN customerStorage :
              /\ \A e \in Entries(call.before.customerStorage[c].interactions) :
                    (e.id \in IssuedIds /\ Dangling(call.before, c, e)) => Dangling(DB, c, e)
              /\ \A e \in Entries(call.before.customerStorage[c].purchases) :
                    (e.id \in IssuedIds /\ DanglingPurchase(call.before, c, e))
                        => DanglingPurchase(DB, c, e)

\* the calls that take entries out of customer c: its deletion, an
\* updateCustomer that replaces its record, and an addCustomer to which the
\* generator returned c
Overwrites(c) ==
    \/ ServedOk("deleteCustomer") /\ call.arg[1] = c
    \/ ServedOk("updateCustomer") /\ call.arg[1].id = c
    \/ ServedOk("addCustomer") /\ generateUUID(call.hashBytes) = c

\* the call is a completed add of that kind to which the generator returned id
WritesStandalone(op, id) ==
    /\ ServedOk(op)
    /\ generateUUID(call.hashBytes) = id

\* C9 as amended: a standalone record under the id of a dangling entry is
\* written only by a later add to which the generator returns that id; the
\* entry stays listed until its customer is deleted, replaced through
\* updateCustomer or created anew under the same id.
C9_DivergenceNeverResynchronised ==
    /\ StopsAfterCustomerWrite
    /\ FailedAddWritesNothing
    /\ call.op # "idle" =>
          \A c \in DOMAIN call.before.customerStorage :
              /\ \A e \in Entries(call.before.customerStorage[c].interactions) :
                    Dangling(call.before, c, e) =>
                        /\ e.id \in DOMAIN interactionStorage => WritesStandalone("addInteraction", e.id)
                        /\ e \in Entries(getCustomerInteractions(DB, c).ret) \/ Overwrites(c)
              /\ \A e \in Entries(call.before.customerStorage[c].purchases) :
                    DanglingPurchase(call.before, c, e) =>
                        /\ e.id \in DOMAIN purchaseStorage => WritesStandalone("addPurchase", e.id)
                        /\ e \in Entries(getCustomerPurchases(DB, c).ret) \/ Overwrites(c)

\* an addInteraction has stopped between its writes
C9_Witness ==
    /\ Crashed("addInteraction")
    /\ Dangling(DB, call.arg[1], call.ret.Pending)
    /\ call.ret.Pending.id \in IssuedIds
    /\ getInteraction(DB, call.ret.Pending.id).ret
          = Err(NotFound("Interaction", call.ret.Pending.id))

(***************************************************************************)
(* C10.  Every key of the three stores is an identifier that the generator *)
(* issued, matches the identifier format, and is the id field of the       *)
(* record stored under it.  So an update with a malformed id returns err   *)
(* NotFound and changes nothing, and every stored record is returned by    *)
(* the get of its store and accepted by its delete.                        *)
(***************************************************************************)
KeysWellFormed(store) ==
    \A k \in DOMAIN store : k \in IssuedIds /\ isValidUUID(k) /\ store[k].id = k

\* whatever the digest, the identifier made of it matches the format, in
\* lower case, with version digit 4 and a variant digit among 8, 9, a, b
GeneratedIdsWellFormed ==
    \A hashBytes \in ProbeDigests \cup Digests :
        LET id == generateUUIDFrom(hashBytes)
        IN  /\ isValidUUID(id)
            /\ id # UpperCaseId
            /\ \A i \in 1..Len(id) : id[i] \in LowerHex \cup {"-"}
            /\ id[15] = "4"
            /\ id[20] \in {"8", "9", "a", "b"}

\* C10: keys are issued, well-formed and equal to the id field; updates
\* with a malformed id answer NotFound and change nothing; every stored
\* record is reachable through the get and the delete of its store
C10_KeysAreIssuedIds ==
    /\ GeneratedIdsWellFormed
    /\ \A k \in IssuedIds : isValidUUID(k) /\ k \in {generateUUID(hashBytes) : hashBytes \in Digests}
    /\ KeysWellFormed(customerStorage)
    /\ KeysWellFormed(interactionStorage)
    /\ KeysWellFormed(purchaseStorage)
    /\ (call.op \in {"updateCustomer", "updateInteraction", "updatePurchase"}
          /\ ~isValidUUID(call.arg[1].id)) =>
          /\ isErr(call.ret, "NotFound")
          /\ DB = call.before
    /\ \A k \in DOMAIN customerStorage :
          /\ getCustomer(DB, k).ret = Ok(customerStorage[k])
          /\ deleteCustomer(DB, k).ret = Ok(k)
    /\ \A k \in DOMAIN interactionStorage :
          /\ getInteraction(DB, k).ret = Ok(interactionStorage[k])
          /\ deleteInteraction(DB, k).ret = Ok(k)
    /\ \A k \in DOMAIN purchaseStorage :
          /\ getPurchase(DB, k).ret = Ok(purchaseStorage[k])
          /\ deletePurchase(DB, k).ret = Ok(k)

\* an update with a malformed id was answered while records are stored
C10_Witness ==
    /\ Served("updatePurchase")
    /\ ~isValidUUID(call.arg[1].id)
    /\ isErr(call.ret, "NotFound")
    /\ DOMAIN customerStorage # {}
    /\ DOMAIN purchaseStorage # {}

====
